---- MODULE Spec2Model ----
(***************************************************************************)
(* Model of src/database/connection_pool.py: the module-level singleton    *)
(* (_connection_pool, get_connection_pool, get_connection,                 *)
(* return_connection, get_connection_context, close_all_connections) and   *)
(* the class DatabaseConnectionPool around psycopg2's                      *)
(* ThreadedConnectionPool.                                                 *)
(*                                                                         *)
(* Every thread is a caller running one module-level operation at a time.  *)
(* A step of a thread is one access to shared state (a module global, a    *)
(* field of a DatabaseConnectionPool, a call into the underlying pool,     *)
(* which psycopg2 runs under its own lock, or an operation on a            *)
(* connection).  Python gives no atomicity beyond that, so the steps of    *)
(* different threads interleave freely.                                    *)
(*                                                                         *)
(* The underlying ThreadedConnectionPool is library code; getconn, putconn *)
(* and closeall are modelled after psycopg2.pool.AbstractConnectionPool    *)
(* (_getconn, _putconn, _closeall) at the places the source calls them.    *)
(***************************************************************************)
EXTENDS Naturals, Sequences, FiniteSets, TLC

\* ---------------------------------------------------------------- bounds
NumThreads == 2          \* concurrent callers
MaxHandles == 5          \* connections psycopg2.connect can open in a run
MaxShutdowns == 1        \* module-level close_all_connections calls in a run
MaxBreaks == 2           \* connections whose server link is lost in a run
MaxOps == 3              \* operations the callers start after Init
MaxConnections == 3      \* max_connections, scaled down from the default 10

\* DatabaseConnectionPool.__init__ default (line 56)
MinConnections == 2

Threads == 1..NumThreads
Handles == 1..MaxHandles
\* Every creation of a DatabaseConnectionPool follows the initial None or a
\* write of None by close_all_connections; every ThreadedConnectionPool a
\* fresh manager or a DatabaseConnectionPool.close_all_connections.
Managers == 1..(MaxShutdowns + 1)
Cores == 1..(2 * MaxShutdowns + 1)
None == 0

VARIABLES
    configured,        \* settings.is_configured
    _connection_pool,  \* module global: None or a DatabaseConnectionPool
    nManagers,         \* DatabaseConnectionPool objects created so far
    nShutdowns,        \* close_all_connections calls started so far
    nBreaks,           \* server links lost so far
    nOps,              \* operations started since the initial state
    min_connections,   \* [manager -> Nat]       self.min_connections
    max_connections,   \* [manager -> Nat]       self.max_connections
    _initialized,      \* [manager -> BOOLEAN]   self._initialized
    _pool,             \* [manager -> core|None] self._pool
    _lock,             \* [manager -> thread|None] holder of self._lock
    nCores,            \* ThreadedConnectionPool objects created so far
    minconn, maxconn,  \* [core -> Nat]          psycopg2 pool limits
    tcp_closed,        \* [core -> BOOLEAN]      psycopg2 pool.closed
    tcp_pool,          \* [core -> Seq(handle)]  psycopg2 pool._pool (idle)
    tcp_used,          \* [core -> SUBSET handle] psycopg2 pool._used
    shut,              \* cores on which close_all_connections has run
    nHandles,          \* connections opened so far
    h_stat,            \* [handle -> "none"|"open"|"closed"] conn.closed
    h_broken,          \* [handle -> BOOLEAN] server link lost, undetected
    h_trans,           \* [handle -> BOOLEAN] conn.status # STATUS_READY
    pc,                \* [thread -> label]
    op,                \* [thread -> operation in progress]
    phase,             \* [thread -> part of get_connection_context]
    pool,              \* [thread -> manager|None] local `pool`
    conn,              \* [thread -> handle|None]  local `conn`
    close,             \* [thread -> BOOLEAN]      argument `close`
    exitKind,          \* [thread -> how the with-body exited]
    held,              \* [thread -> SUBSET handle] acquired, not yet released
    outcome            \* what the step just taken delivered to a caller

lvars == <<min_connections, max_connections>>
gvars == <<configured, lvars, _connection_pool, nManagers, nShutdowns, nOps>>
mvars == <<_initialized, _pool, _lock>>
cvars == <<nCores, minconn, maxconn, tcp_closed, tcp_pool, tcp_used, shut>>
hvars == <<nHandles, nBreaks, h_stat, h_broken, h_trans>>
frame == <<pc, op, phase, pool, conn, close, exitKind>>
vars == <<gvars, mvars, cvars, hvars, frame, held, outcome>>

\* --------------------------------------------------------------- helpers
Range(s) == {s[i] : i \in 1..Len(s)}

\* A connection on which a statement (SELECT 1, ROLLBACK) succeeds.
Healthy(h) == h_stat[h] = "open" /\ ~h_broken[h]

\* conn.close(): also ends the session's transaction.
Closed(stat, hs) == [h \in Handles |-> IF h \in hs THEN "closed" ELSE stat[h]]
Cleared(flag, hs) == [h \in Handles |-> IF h \in hs THEN FALSE ELSE flag[h]]

\* A step that returns nothing to a caller.
NoOutcome ==
    [thread |-> None, call |-> "none", conn |-> None, err |-> "none",
     probed |-> FALSE, close |-> FALSE, exitKind |-> "none", releases |-> 0,
     connection_returned |-> FALSE, status |-> "none", limits |-> <<0, 0>>]

Init ==
    /\ configured \in BOOLEAN
    /\ min_connections = [m \in Managers |-> 0]
    /\ max_connections = [m \in Managers |-> 0]
    /\ _connection_pool = None
    /\ nManagers = 0
    /\ nShutdowns = 0
    /\ nBreaks = 0
    /\ nOps = 0
    /\ _initialized = [m \in Managers |-> FALSE]
    /\ _pool = [m \in Managers |-> None]
    /\ _lock = [m \in Managers |-> None]
    /\ nCores = 0
    /\ minconn = [c \in Cores |-> 0]
    /\ maxconn = [c \in Cores |-> 0]
    /\ tcp_closed = [c \in Cores |-> FALSE]
    /\ tcp_pool = [c \in Cores |-> <<>>]
    /\ tcp_used = [c \in Cores |-> {}]
    /\ shut = {}
    /\ nHandles = 0
    /\ h_stat = [h \in Handles |-> "none"]
    /\ h_broken = [h \in Handles |-> FALSE]
    /\ h_trans = [h \in Handles |-> FALSE]
    /\ pc = [t \in Threads |-> "idle"]
    /\ op = [t \in Threads |-> "none"]
    /\ phase = [t \in Threads |-> "none"]
    /\ pool = [t \in Threads |-> None]
    /\ conn = [t \in Threads |-> None]
    /\ close = [t \in Threads |-> FALSE]
    /\ exitKind = [t \in Threads |-> "none"]
    /\ held = [t \in Threads |-> {}]
    /\ outcome = NoOutcome

\* ------------------------------------------- psycopg2.pool (library code)
Opened(stat, hs) == [h \in Handles |-> IF h \in hs THEN "open" ELSE stat[h]]

\* A getconn() that opens a connection whenever none is idle, whatever the
\* number in use.
GetconnNoCeiling(c) ==
    IF tcp_closed[c] THEN {<<"raise", "PoolClosed">>}
    ELSE IF tcp_pool[c] # <<>> THEN {<<"ok", tcp_pool[c][Len(tcp_pool[c])]>>}
    ELSE {<<"raise", "OperationalError">>}
         \cup (IF nHandles < MaxHandles THEN {<<"ok", nHandles + 1>>} ELSE {})

\* The outcomes of getconn() on core c: <<"ok", handle>> or
\* <<"raise", exception>>.  An idle connection is taken from the end of
\* _pool; a new one is opened only when none is idle and fewer than maxconn
\* are in use, and psycopg2.connect then either opens the next connection or
\* fails (backend unreachable, or no connection left in this run).
GetconnOutcomes(c) ==
    IF tcp_closed[c] THEN {<<"raise", "PoolClosed">>}
    ELSE IF tcp_pool[c] # <<>> THEN {<<"ok", tcp_pool[c][Len(tcp_pool[c])]>>}
    ELSE IF Cardinality(tcp_used[c]) = maxconn[c]
         THEN {<<"raise", "PoolExhausted">>}
    ELSE {<<"raise", "OperationalError">>}
         \cup (IF nHandles < MaxHandles THEN {<<"ok", nHandles + 1>>} ELSE {})

\* A getconn() that leaves the connection it returns in the idle list.
IdleKept(c, h) == tcp_pool[c]

\* The idle list after getconn() returned h: h is popped.
IdleAfterGetconn(c, h) == SelectSeq(tcp_pool[c], LAMBDA x : x # h)

\* The effect of a getconn() that returned handle h: h leaves _pool, or is
\* opened, and is keyed in _used.  lost: the server link of h was lost while
\* it sat idle; tr: the caller's SELECT 1 then opens a transaction on h.
GetconnEffect(c, h, lost, tr) ==
    /\ tcp_used' = [tcp_used EXCEPT ![c] = @ \cup {h}]
    /\ tcp_pool' = [tcp_pool EXCEPT ![c] = IdleAfterGetconn(c, h)]
    /\ nHandles' = IF h_stat[h] = "none" THEN nHandles + 1 ELSE nHandles
    /\ h_stat' = Opened(h_stat, {h})
    /\ h_broken' = [h_broken EXCEPT ![h] = @ \/ lost]
    /\ h_trans' = [h_trans EXCEPT ![h] = tr]
    /\ nBreaks' = IF lost THEN nBreaks + 1 ELSE nBreaks
    /\ UNCHANGED <<nCores, minconn, maxconn, tcp_closed, shut>>

\* Whether the link of idle handle h can be found lost at a getconn(): the
\* server or the network drops links of open connections at any time; the
\* loss shows when the connection is next used.
MayBeLost(h) ==
    IF h_stat[h] = "open" /\ ~h_broken[h] /\ nBreaks < MaxBreaks
    THEN BOOLEAN ELSE {FALSE}

\* A putconn that keeps every open connection released without close.
PutconnKeepsAll(c, h, cl) == ~cl /\ h_stat[h] = "open"

\* A putconn that keeps an open connection whatever its close argument.
PutconnIgnoresClose(c, h, cl) ==
    Len(tcp_pool[c]) < minconn[c] /\ h_stat[h] = "open"

\* putconn(conn, close) keeps an open connection when fewer than minconn
\* are idle and close is false.
PutconnKeeps(c, h, cl) ==
    Len(tcp_pool[c]) < minconn[c] /\ ~cl /\ h_stat[h] = "open"

\* putconn raises before it changes anything: the pool is closed, the
\* connection is not keyed in _used, or the rollback of a connection that
\* is to be kept fails.
PutconnRaises(c, h, cl) ==
    \/ tcp_closed[c]
    \/ h \notin tcp_used[c]
    \/ PutconnKeeps(c, h, cl) /\ h_trans[h] /\ h_broken[h]

\* A putconn that leaves the key of the connection in _used.
PutconnKeepsKey(c, h, cl) ==
    /\ IF PutconnKeeps(c, h, cl)
       THEN /\ tcp_pool' = [tcp_pool EXCEPT ![c] = Append(@, h)]
            /\ h_trans' = Cleared(h_trans, {h})
            /\ UNCHANGED <<nHandles, nBreaks, h_stat, h_broken>>
       ELSE /\ UNCHANGED tcp_pool
            /\ h_stat' = Closed(h_stat, {h})
            /\ h_broken' = Cleared(h_broken, {h})
            /\ h_trans' = Cleared(h_trans, {h})
            /\ UNCHANGED <<nHandles, nBreaks>>
    /\ UNCHANGED <<nCores, minconn, maxconn, tcp_closed, tcp_used, shut>>

\* The effect of a putconn that does not raise: the connection is rolled
\* back and appended to _pool, or closed; its key is deleted from _used.
PutconnEffect(c, h, cl) ==
    /\ tcp_used' = [tcp_used EXCEPT ![c] = @ \ {h}]
    /\ IF PutconnKeeps(c, h, cl)
       THEN /\ tcp_pool' = [tcp_pool EXCEPT ![c] = Append(@, h)]
            /\ h_trans' = Cleared(h_trans, {h})
            /\ UNCHANGED <<nHandles, nBreaks, h_stat, h_broken>>
       ELSE /\ UNCHANGED tcp_pool
            /\ h_stat' = Closed(h_stat, {h})
            /\ h_broken' = Cleared(h_broken, {h})
            /\ h_trans' = Cleared(h_trans, {h})
            /\ UNCHANGED <<nHandles, nBreaks>>
    /\ UNCHANGED <<nCores, minconn, maxconn, tcp_closed, shut>>

\* A closeall() that closes the idle connections only.
CloseallIdle(c) == Range(tcp_pool[c])

\* closeall() closes the idle connections and the ones in use.
CloseallTargets(c) == Range(tcp_pool[c]) \cup tcp_used[c]

\* ----------------------------------------------------- control transfer
InGet(t) == op[t] = "get" \/ (op[t] = "ctx" /\ phase[t] = "acquire")

\* get_connection_pool, line 233: the unlocked look at the global, which
\* is the first access to shared state of every caller; the label it leads
\* to.
get_connection_pool_check ==
    IF _connection_pool = None THEN "gp_lock" ELSE "gp_return"

\* Thread t moves to label l inside its operation.
Goto(t, l) ==
    /\ pc' = [pc EXCEPT ![t] = l]
    /\ outcome' = NoOutcome

\* The operation of thread t ends and delivers rec to its caller; the
\* frame of the operation is gone.
Leave(t, rec) ==
    /\ pc' = [pc EXCEPT ![t] = "idle"]
    /\ op' = [op EXCEPT ![t] = "none"]
    /\ phase' = [phase EXCEPT ![t] = "none"]
    /\ pool' = [pool EXCEPT ![t] = None]
    /\ conn' = [conn EXCEPT ![t] = None]
    /\ close' = [close EXCEPT ![t] = FALSE]
    /\ exitKind' = [exitKind EXCEPT ![t] = "none"]
    /\ outcome' = rec

\* What `call` of thread t delivers: connection h (returned, or the one the
\* call was about) and exception e ("none": normal return).
Result(t, call, h, e) ==
    [NoOutcome EXCEPT !.thread = t, !.call = call, !.conn = h, !.err = e,
                      !.close = close[t], !.exitKind = exitKind[t]]

\* The return_connection calls made so far by the context of thread t, and
\* the exception that is propagating while it releases.
Releases(t) == IF phase[t] = "rel_again" THEN 2 ELSE 1

Pending(t) ==
    CASE phase[t] = "rel_again" -> "AttributeError"
      [] exitKind[t] = "exc" -> "Exception"
      [] exitKind[t] = "base" -> "BaseException"
      [] OTHER -> "none"

\* A get_connection that logs the exception and returns None.
GetReturnsNone(t, e) ==
    /\ Leave(t, Result(t, IF op[t] = "ctx" THEN "get_connection_context"
                                           ELSE "get_connection", None,
                       "none"))
    /\ UNCHANGED held

\* get_connection raises e (lines 153-155).  In get_connection_context the
\* except branch finds conn None and re-raises; finally releases nothing.
GetRaise(t, e) ==
    /\ Leave(t, Result(t, IF op[t] = "ctx" THEN "get_connection_context"
                                           ELSE "get_connection", None, e))
    /\ UNCHANGED held

\* get_connection returns h (line 151): to the caller of get_connection, or
\* to the yield of get_connection_context (line 285).
GetReturn(t, h, wasProbed) ==
    /\ held' = [held EXCEPT ![t] = @ \cup {h}]
    /\ LET rec == [Result(t, "get_connection", h, "none")
                     EXCEPT !.probed = wasProbed]
       IN IF op[t] = "ctx"
          THEN /\ pc' = [pc EXCEPT ![t] = "cx_body"]
               /\ conn' = [conn EXCEPT ![t] = h]
               /\ outcome' = rec
               /\ UNCHANGED <<op, phase, pool, close, exitKind>>
          ELSE Leave(t, rec)

\* An except branch that releases without close.
ExceptCloseOff == FALSE

\* The close argument of the release in the except branch (line 290) and of
\* the one in the finally block (line 296).
ExceptClose == TRUE

FinallyClose == FALSE

\* return_connection returns normally to its caller: the thread itself, the
\* except branch of get_connection_context, which sets connection_returned
\* and re-raises (lines 291-292), or its finally block.
RetReturn(t) ==
    /\ IF op[t] = "ctx"
       THEN Leave(t, [Result(t, "get_connection_context", conn[t], Pending(t))
                        EXCEPT !.releases = Releases(t),
                               !.connection_returned = (phase[t] = "rel_exc")])
       ELSE Leave(t, Result(t, "return_connection", conn[t], "none"))
    /\ UNCHANGED held

\* ------------------------------------------------- get_connection_pool
\* A constructor whose defaults are the wrong way round.
LimitsSwapped == <<MaxConnections, MinConnections>>

\* line 56: the defaults of __init__, which line 236 takes.
DefaultLimits == <<MinConnections, MaxConnections>>

\* lines 234-236: with _pool_lock, the second look at the global and, when
\* it is still None, the creation of the DatabaseConnectionPool.
get_connection_pool_create(t) ==
    /\ pc[t] = "gp_lock"
    /\ IF _connection_pool = None
       THEN /\ nManagers < MaxShutdowns + 1
            /\ nManagers' = nManagers + 1
            /\ _connection_pool' = nManagers + 1
            /\ min_connections' = [min_connections EXCEPT
                                       ![nManagers + 1] = DefaultLimits[1]]
            /\ max_connections' = [max_connections EXCEPT
                                       ![nManagers + 1] = DefaultLimits[2]]
       ELSE UNCHANGED <<nManagers, _connection_pool, lvars>>
    /\ Goto(t, "gp_return")
    /\ UNCHANGED <<configured, nShutdowns, nOps, mvars, cvars, hvars, op,
                   phase, pool, conn, close, exitKind, held>>

\* line 238: the second read of the global, whose value is returned (and
\* bound to `pool` at line 250 or 261).
get_connection_pool_return(t) ==
    /\ pc[t] = "gp_return"
    /\ pool' = [pool EXCEPT ![t] = _connection_pool]
    /\ Goto(t, IF InGet(t) THEN "gc_check" ELSE "rc_check")
    /\ UNCHANGED <<gvars, mvars, cvars, hvars, op, phase, conn, close,
                   exitKind, held>>

\* ------------------------- DatabaseConnectionPool.get_connection (111-155)
\* The (minconn, maxconn) arguments of lines 88-89.
PoolLimits(m) == <<min_connections[m], max_connections[m]>>

\* A settings check that finds every setting present.
SettingsUnchecked == TRUE

\* line 83: settings.is_configured, all four required settings non-empty.
is_configured == configured

\* An _initialize_pool that does not look at _initialized again once it
\* holds the lock.
RecheckSkipped(m) == FALSE

\* line 76: the second look at self._initialized, under self._lock.
AlreadyInitialized(m) == _initialized[m]

\* A failed _initialize_pool that has marked the manager initialized before
\* it raises.
initialize_pool_marked(t, m, e) ==
    /\ GetRaise(t, e)
    /\ _initialized' = [_initialized EXCEPT ![m] = TRUE]
    /\ UNCHANGED <<_pool, _lock, cvars, hvars>>

\* lines 107-109: the exception of the settings check or of the constructor
\* is logged and raised again; lines 87 and 104 have assigned nothing, the
\* with block releases self._lock, and get_connection (line 126, outside its
\* try) lets the exception through.
initialize_pool_raise(t, m, e) ==
    /\ GetRaise(t, e)
    /\ UNCHANGED <<mvars, cvars, hvars>>

\* DatabaseConnectionPool.get_pool_status (lines 206-222): the status field.
get_pool_status(m) ==
    IF ~_initialized[m] THEN "not_initialized" ELSE "initialized"

\* _initialize_pool (lines 75-109) on manager m, by a thread that found
\* _initialized false at lines 125 and 72: under self._lock, the second look
\* at _initialized, the settings check and the construction of the
\* ThreadedConnectionPool, which opens minconn connections or raises.  The
\* lock is taken and released in this step: nothing is written before the
\* two assignments that end it, so no other thread can tell.
initialize_pool(t, m) ==
    /\ _lock[m] = None
    /\ IF AlreadyInitialized(m)
       THEN /\ Goto(t, "gc_getconn")
            /\ UNCHANGED <<mvars, cvars, hvars, op, phase, pool, conn, close,
                           exitKind, held>>
       ELSE IF ~is_configured
       THEN initialize_pool_raise(t, m, "ValueError")
       ELSE \/ initialize_pool_raise(t, m, "OperationalError")
            \/ /\ nHandles + PoolLimits(m)[1] <= MaxHandles
               /\ nCores < 2 * MaxShutdowns + 1
               /\ LET c == nCores + 1
                      new == (nHandles + 1)..(nHandles + PoolLimits(m)[1])
                  IN /\ nCores' = c
                     /\ minconn' = [minconn EXCEPT ![c] = PoolLimits(m)[1]]
                     /\ maxconn' = [maxconn EXCEPT ![c] = PoolLimits(m)[2]]
                     /\ tcp_pool' = [tcp_pool EXCEPT ![c] =
                            [i \in 1..PoolLimits(m)[1] |-> nHandles + i]]
                     /\ nHandles' = nHandles + PoolLimits(m)[1]
                     /\ h_stat' = Opened(h_stat, new)
                     /\ _pool' = [_pool EXCEPT ![m] = c]
                     /\ _initialized' = [_initialized EXCEPT ![m] = TRUE]
               /\ Goto(t, "gc_getconn")
               /\ UNCHANGED <<_lock, tcp_closed, tcp_used, shut, nBreaks,
                              h_broken, h_trans, op, phase, pool, conn, close,
                              exitKind, held>>

\* line 251 (pool.get_connection on None raises AttributeError) and lines
\* 125 and 72: the looks at self._initialized outside the lock.
get_connection_check(t) ==
    /\ pc[t] = "gc_check"
    /\ IF pool[t] = None
       THEN GetRaise(t, "AttributeError")
       ELSE /\ Goto(t, IF _initialized[pool[t]] THEN "gc_getconn"
                                                 ELSE "ip_lock")
            /\ UNCHANGED <<op, phase, pool, conn, close, exitKind, held>>
    /\ UNCHANGED <<gvars, mvars, cvars, hvars>>

\* line 75: with self._lock, and the body of _initialize_pool.
get_connection_initialize(t) ==
    /\ pc[t] = "ip_lock"
    /\ initialize_pool(t, pool[t])
    /\ UNCHANGED gvars

\* lines 132-151: conn = self._pool.getconn() (a None _pool raises
\* AttributeError; getconn never returns None, so line 134 is dead), then
\* the SELECT 1 probe on the connection.  The probe opens a transaction on
\* a healthy connection, which is returned; otherwise line 143 is reached.
get_connection_getconn(t) ==
    /\ pc[t] = "gc_getconn"
    /\ LET c == _pool[pool[t]] IN
       IF c = None
       THEN GetRaise(t, "AttributeError") /\ UNCHANGED <<cvars, hvars>>
       ELSE \E r \in GetconnOutcomes(c) :
              IF r[1] = "raise"
              THEN GetRaise(t, r[2]) /\ UNCHANGED <<cvars, hvars>>
              ELSE \E lost \in MayBeLost(r[2]) :
                     IF h_stat[r[2]] = "none" \/ (Healthy(r[2]) /\ ~lost)
                     THEN /\ GetconnEffect(c, r[2], FALSE, TRUE)
                          /\ GetReturn(t, r[2], TRUE)
                     ELSE /\ GetconnEffect(c, r[2], lost, h_trans[r[2]])
                          /\ conn' = [conn EXCEPT ![t] = r[2]]
                          /\ Goto(t, "gc_discard")
                          /\ UNCHANGED <<op, phase, pool, close, exitKind,
                                         held>>
    /\ UNCHANGED <<gvars, mvars>>

\* A get_connection that goes on to the second checkout without putting the
\* connection that failed the probe back.
get_connection_keep(t) ==
    /\ pc[t] = "gc_discard"
    /\ Goto(t, "gc_retry")
    /\ UNCHANGED <<gvars, mvars, cvars, hvars, op, phase, pool, conn, close,
                   exitKind, held>>

\* line 145: self._pool.putconn(conn, close=True).
get_connection_discard(t) ==
    /\ pc[t] = "gc_discard"
    /\ LET c == _pool[pool[t]] IN
       IF c = None
       THEN GetRaise(t, "AttributeError") /\ UNCHANGED <<cvars, hvars>>
       ELSE IF PutconnRaises(c, conn[t], TRUE)
       THEN GetRaise(t, "PoolError") /\ UNCHANGED <<cvars, hvars>>
       ELSE /\ PutconnEffect(c, conn[t], TRUE)
            /\ Goto(t, "gc_retry")
            /\ UNCHANGED <<op, phase, pool, conn, close, exitKind, held>>
    /\ UNCHANGED <<gvars, mvars>>

\* A get_connection that goes back to line 132 after the discard, to check
\* out and probe until a connection passes.
get_connection_again(t) ==
    /\ pc[t] = "gc_retry"
    /\ Goto(t, "gc_getconn")
    /\ UNCHANGED <<gvars, mvars, cvars, hvars, op, phase, pool, conn, close,
                   exitKind, held>>

\* lines 146-151: conn = self._pool.getconn(), returned without a probe.
get_connection_retry(t) ==
    /\ pc[t] = "gc_retry"
    /\ LET c == _pool[pool[t]] IN
       IF c = None
       THEN GetRaise(t, "AttributeError") /\ UNCHANGED <<cvars, hvars>>
       ELSE \E r \in GetconnOutcomes(c) :
              IF r[1] = "raise"
              THEN GetRaise(t, r[2]) /\ UNCHANGED <<cvars, hvars>>
              ELSE \E lost \in MayBeLost(r[2]) :
                     /\ GetconnEffect(c, r[2], lost, h_trans[r[2]])
                     /\ GetReturn(t, r[2], FALSE)
    /\ UNCHANGED <<gvars, mvars>>

\* ---------------------- DatabaseConnectionPool.return_connection (157-189)
\* The release that the finally block of get_connection_context makes after
\* the release of the except branch raised (connection_returned is still
\* False at line 295): return_connection(conn) is called again, and starts
\* with get_connection_pool.
FinallyReleasesAgain(t) ==
    /\ UNCHANGED <<nManagers, _connection_pool>>
    /\ Goto(t, get_connection_pool_check)
    /\ phase' = [phase EXCEPT ![t] = "rel_again"]
    /\ close' = [close EXCEPT ![t] = FinallyClose]
    /\ UNCHANGED <<op, pool, conn, exitKind, held>>

\* A return_connection that goes on whatever the pool and the connection.
ReturnAlwaysProceeds(t) == FALSE

\* line 165: if not self._initialized or not conn.
ReturnIgnored(t) == ~_initialized[pool[t]] \/ conn[t] = None

\* line 262 (pool.return_connection on None raises AttributeError to the
\* caller of return_connection) and lines 165-167: nothing is done on a pool
\* that is not initialized, or with no connection.
return_connection_check(t) ==
    /\ pc[t] = "rc_check"
    /\ IF pool[t] = None
       THEN IF op[t] = "ctx" /\ phase[t] = "rel_exc"
            THEN FinallyReleasesAgain(t)
            ELSE /\ Leave(t, IF op[t] = "ctx"
                             THEN [Result(t, "get_connection_context",
                                          conn[t], "AttributeError")
                                     EXCEPT !.releases = Releases(t)]
                             ELSE Result(t, "return_connection", conn[t],
                                         "AttributeError"))
                 /\ UNCHANGED <<nManagers, _connection_pool, held>>
       ELSE /\ IF ReturnIgnored(t)
               THEN RetReturn(t)
               ELSE /\ Goto(t, "rc_put")
                    /\ UNCHANGED <<op, phase, pool, conn, close, exitKind,
                                   held>>
            /\ UNCHANGED <<nManagers, _connection_pool>>
    /\ UNCHANGED <<configured, lvars, nShutdowns, nOps, mvars, cvars, hvars>>

\* lines 171-175: a rollback is attempted when close is false, the
\* connection is open and a transaction is pending.
RollbackAttempted(h, cl) == ~cl /\ h_stat[h] = "open" /\ h_trans[h]

\* An except branch that logs the failure and leaves the connection as it
\* is.
ForceCloseSkipped(h) == UNCHANGED <<hvars, cvars>>

\* lines 182-189: the except branch closes the connection; the underlying
\* pool is not told.
ForceClose(h) ==
    /\ h_stat' = Closed(h_stat, {h})
    /\ h_broken' = Cleared(h_broken, {h})
    /\ h_trans' = Cleared(h_trans, {h})
    /\ UNCHANGED <<nHandles, nBreaks, cvars>>

\* lines 169-189: rollback, then self._pool.putconn(conn, close=close); any
\* exception (failed rollback, None _pool, PoolError) is logged and the
\* connection is closed by conn.close(), without a putconn.
return_connection_put(t) ==
    /\ pc[t] = "rc_put"
    /\ LET h == conn[t]
           cl == close[t]
           c == _pool[pool[t]]
       IN IF \/ RollbackAttempted(h, cl) /\ h_broken[h]
             \/ c = None
             \/ c # None /\ PutconnRaises(c, h, cl)
          THEN ForceClose(h)
          ELSE PutconnEffect(c, h, cl)
    /\ RetReturn(t)
    /\ UNCHANGED <<gvars, mvars>>

\* ----------------------------------------------------------- callers
\* A caller that is between operations starts the next one.
Begin(t, o, ph) ==
    /\ pc[t] = "idle"
    /\ nOps < MaxOps
    /\ nOps' = nOps + 1
    /\ op' = [op EXCEPT ![t] = o]
    /\ phase' = [phase EXCEPT ![t] = ph]
    /\ UNCHANGED <<configured, lvars, pool, exitKind>>

\* What the caller's use of connection h leaves at the release.  tr: a
\* transaction is pending (a query opens one, a commit ends it); lost: the
\* server link was lost while the caller held h.  A connection that was
\* unusable when acquired is released as acquired.
UseLeaves(h, tr, lost) ==
    /\ lost \in MayBeLost(h)
    /\ ~Healthy(h) => tr = h_trans[h]
    /\ h_trans' = [h_trans EXCEPT ![h] = tr]
    /\ h_broken' = [h_broken EXCEPT ![h] = @ \/ lost]
    /\ nBreaks' = IF lost THEN nBreaks + 1 ELSE nBreaks
    /\ UNCHANGED <<nHandles, h_stat>>

\* conn = get_connection()  (lines 240, 250)
StartGet(t) ==
    /\ Begin(t, "get", "none")
    /\ UNCHANGED <<nManagers, _connection_pool>>
    /\ Goto(t, get_connection_pool_check)
    /\ UNCHANGED <<nShutdowns, mvars, cvars, hvars, conn, close, held>>

\* return_connection(conn, close)  (lines 253, 261) on a handle the caller
\* holds
StartReturn(t, h, cl, tr, lost) ==
    /\ Begin(t, "ret", "none")
    /\ h \in held[t]
    /\ UseLeaves(h, tr, lost)
    /\ UNCHANGED <<nManagers, _connection_pool>>
    /\ conn' = [conn EXCEPT ![t] = h]
    /\ close' = [close EXCEPT ![t] = cl]
    /\ held' = [held EXCEPT ![t] = @ \ {h}]
    /\ Goto(t, get_connection_pool_check)
    /\ UNCHANGED <<nShutdowns, mvars, cvars>>

\* return_connection(None)  (lines 253, 261): the caller passes the None it
\* was left with.
StartReturnNone(t) ==
    /\ Begin(t, "ret", "none")
    /\ UNCHANGED <<nManagers, _connection_pool>>
    /\ Goto(t, get_connection_pool_check)
    /\ UNCHANGED <<nShutdowns, mvars, cvars, hvars, conn, close, held>>

\* with get_connection_context() as conn  (lines 281-284)
StartContext(t) ==
    /\ Begin(t, "ctx", "acquire")
    /\ UNCHANGED <<nManagers, _connection_pool>>
    /\ Goto(t, get_connection_pool_check)
    /\ UNCHANGED <<nShutdowns, mvars, cvars, hvars, conn, close, held>>

\* close_all_connections()  (lines 298-302: if _connection_pool)
StartCloseAll(t) ==
    /\ pc[t] = "idle"
    /\ nOps < MaxOps
    /\ nShutdowns < MaxShutdowns
    /\ nOps' = nOps + 1
    /\ nShutdowns' = nShutdowns + 1
    /\ IF _connection_pool = None
       THEN Leave(t, Result(t, "close_all_connections", None, "none"))
       ELSE /\ op' = [op EXCEPT ![t] = "close"]
            /\ Goto(t, "ca_call")
            /\ UNCHANGED <<phase, pool, conn, close, exitKind>>
    /\ UNCHANGED <<configured, lvars, _connection_pool, nManagers, mvars, cvars,
                   hvars, held>>

\* ----------------------------------- get_connection_context (264-296)
\* The with-body exits: normally ("ok"), by an exception that `except
\* Exception` catches ("exc"), or by one it does not catch ("base":
\* KeyboardInterrupt, SystemExit, GeneratorExit).  The first release is then
\* called: line 290 in the except branch, line 296 in the finally block; it
\* starts with get_connection_pool.
context_body_exit(t) ==
    /\ pc[t] = "cx_body"
    /\ \E k \in {"ok", "exc", "base"}, tr, lost \in BOOLEAN :
         /\ UseLeaves(conn[t], tr, lost)
         /\ exitKind' = [exitKind EXCEPT ![t] = k]
         /\ phase' = [phase EXCEPT ![t] =
                        IF k = "exc" THEN "rel_exc" ELSE "rel_fin"]
         /\ close' = [close EXCEPT ![t] =
                        IF k = "exc" THEN ExceptClose ELSE FinallyClose]
    /\ UNCHANGED <<nManagers, _connection_pool>>
    /\ held' = [held EXCEPT ![t] = @ \ {conn[t]}]
    /\ Goto(t, get_connection_pool_check)
    /\ UNCHANGED <<configured, lvars, nShutdowns, nOps, mvars, cvars, op, pool, conn>>

\* ------------------------------------- close_all_connections (298-304)
\* line 303: the global is read again for the call, and line 193.
close_all_connections_call(t) ==
    /\ pc[t] = "ca_call"
    /\ IF _connection_pool = None
       THEN Leave(t, Result(t, "close_all_connections", None,
                            "AttributeError"))
       ELSE /\ pool' = [pool EXCEPT ![t] = _connection_pool]
            /\ Goto(t, IF _initialized[_connection_pool] THEN "mc_closeall"
                                                         ELSE "ca_clear")
            /\ UNCHANGED <<op, phase, conn, close, exitKind>>
    /\ UNCHANGED <<gvars, mvars, cvars, hvars, held>>

\* lines 197-199: with self._lock: if self._pool: self._pool.closeall().
\* closeall() on a closed pool raises PoolError, which line 203 logs.
close_all_closeall(t) ==
    /\ pc[t] = "mc_closeall"
    /\ _lock[pool[t]] = None
    /\ LET c == _pool[pool[t]] IN
       IF c = None \/ (c # None /\ tcp_closed[c])
       THEN /\ Goto(t, "ca_clear")
            /\ UNCHANGED <<_lock, cvars, hvars>>
       ELSE /\ tcp_closed' = [tcp_closed EXCEPT ![c] = TRUE]
            /\ h_stat' = Closed(h_stat, CloseallTargets(c))
            /\ h_broken' = Cleared(h_broken, CloseallTargets(c))
            /\ h_trans' = Cleared(h_trans, CloseallTargets(c))
            /\ Goto(t, "mc_none")
            /\ _lock' = [_lock EXCEPT ![pool[t]] = t]
            /\ UNCHANGED <<nHandles, nBreaks, nCores, minconn, maxconn,
                           tcp_pool, tcp_used, shut>>
    /\ UNCHANGED <<gvars, _initialized, _pool, op, phase, pool, conn, close,
                   exitKind, held>>

\* A shutdown that keeps self._pool.
close_all_keep(t) ==
    /\ pc[t] = "mc_none"
    /\ shut' = shut \cup {_pool[pool[t]]}
    /\ Goto(t, "mc_uninit")
    /\ UNCHANGED <<gvars, mvars, nCores, minconn, maxconn, tcp_closed,
                   tcp_pool, tcp_used, hvars, op, phase, pool, conn, close,
                   exitKind, held>>

\* line 200: self._pool = None.
close_all_none(t) ==
    /\ pc[t] = "mc_none"
    /\ shut' = shut \cup {_pool[pool[t]]}
    /\ _pool' = [_pool EXCEPT ![pool[t]] = None]
    /\ Goto(t, "mc_uninit")
    /\ UNCHANGED <<gvars, _initialized, _lock, nCores, minconn, maxconn,
                   tcp_closed, tcp_pool, tcp_used, hvars, op, phase, pool,
                   conn, close, exitKind, held>>

\* line 201: self._initialized = False, and the lock is released.
close_all_uninit(t) ==
    /\ pc[t] = "mc_uninit"
    /\ _initialized' = [_initialized EXCEPT ![pool[t]] = FALSE]
    /\ _lock' = [_lock EXCEPT ![pool[t]] = None]
    /\ Goto(t, "ca_clear")
    /\ UNCHANGED <<gvars, _pool, cvars, hvars, op, phase, pool, conn, close,
                   exitKind, held>>

\* line 304: _connection_pool = None.
close_all_connections_clear(t) ==
    /\ pc[t] = "ca_clear"
    /\ _connection_pool' = None
    /\ Leave(t, Result(t, "close_all_connections", None, "none"))
    /\ UNCHANGED <<configured, lvars, nManagers, nShutdowns, nOps, mvars, cvars,
                   hvars, held>>

\* ------------------------------------------------------- specification
Next ==
    \E t \in Threads :
         \/ StartGet(t)
         \/ \E h \in Handles, cl, tr, lost \in BOOLEAN :
                StartReturn(t, h, cl, tr, lost)
         \/ StartContext(t)
         \/ StartCloseAll(t)
         \/ get_connection_pool_create(t)
         \/ get_connection_pool_return(t)
         \/ get_connection_check(t)
         \/ get_connection_initialize(t)
         \/ get_connection_getconn(t)
         \/ get_connection_discard(t)
         \/ get_connection_retry(t)
         \/ return_connection_check(t)
         \/ return_connection_put(t)
         \/ context_body_exit(t)
         \/ close_all_connections_call(t)
         \/ close_all_closeall(t)
         \/ close_all_none(t)
         \/ close_all_uninit(t)
         \/ close_all_connections_clear(t)

Spec == Init /\ [][Next]_vars

\* The steps of thread t inside an operation it has started.  A thread that
\* can take a step is runnable, and the interpreter runs every runnable
\* thread again and again; the only step that can wait is the one that takes
\* self._lock, which its holder releases two steps later.
Step(t) ==
    \/ get_connection_pool_create(t)
    \/ get_connection_pool_return(t)
    \/ get_connection_check(t)
    \/ get_connection_initialize(t)
    \/ get_connection_getconn(t)
    \/ get_connection_discard(t)
    \/ get_connection_retry(t)
    \/ return_connection_check(t)
    \/ return_connection_put(t)
    \/ close_all_connections_call(t)
    \/ close_all_closeall(t)
    \/ close_all_none(t)
    \/ close_all_uninit(t)
    \/ close_all_connections_clear(t)

SpecFair == Init /\ [][Next]_vars /\ \A t \in Threads : WF_vars(Step(t))

\* --------------------------------------------- get_pool_status (306-311)
\* get_pool_status(), line 308: if _connection_pool is None the function
\* returns {"status": "not_initialized"}; takes no lock.
StartStatus(t) ==
    /\ pc[t] = "idle"
    /\ nOps < MaxOps
    /\ nOps' = nOps + 1
    /\ IF _connection_pool = None
       THEN Leave(t, [Result(t, "get_pool_status", None, "none")
                        EXCEPT !.status = "not_initialized"])
       ELSE /\ op' = [op EXCEPT ![t] = "status"]
            /\ Goto(t, "gs_call")
            /\ UNCHANGED <<phase, pool, conn, close, exitKind>>
    /\ UNCHANGED <<configured, lvars, _connection_pool, nManagers, nShutdowns,
                   mvars, cvars, hvars, held>>

\* line 311: _connection_pool.get_pool_status(), a second look at the
\* global (None has no such method: AttributeError), then lines 208-219 on
\* the manager: its status, and min_connections and max_connections once it
\* is initialized.
get_pool_status_call(t) ==
    /\ pc[t] = "gs_call"
    /\ IF _connection_pool = None
       THEN Leave(t, Result(t, "get_pool_status", None, "AttributeError"))
       ELSE Leave(t, [Result(t, "get_pool_status", None, "none")
                        EXCEPT !.status = get_pool_status(_connection_pool),
                               !.limits =
                                   IF _initialized[_connection_pool]
                                   THEN PoolLimits(_connection_pool)
                                   ELSE <<0, 0>>])
    /\ UNCHANGED <<gvars, mvars, cvars, hvars, held>>

\* The callers also ask for the status (the /health endpoint does).
NextStatus ==
    \/ Next
    \/ \E t \in Threads : StartStatus(t) \/ get_pool_status_call(t)

SpecStatus == Init /\ [][NextStatus]_vars

\* The callers also pass None to return_connection.
NextNone ==
    \/ Next
    \/ \E t \in Threads : StartReturnNone(t)

SpecNone == Init /\ [][NextNone]_vars

\* ------------------------------------- connections opened outside the pool
\* InsightProcessor.update_customer_insights, update_contract_insights and
\* generate_daily_insights (src/ai/processors/insight_processor.py, lines
\* 33-181) and get_customers (src/api/app.py, lines 572-626).
InsightCalls ==
    {"update_customer_insights", "update_contract_insights",
     "generate_daily_insights"}
DirectCalls == InsightCalls \cup {"get_customers"}

\* The function is called and reaches psycopg2.connect (lines 38, 85, 144 of
\* insight_processor.py; line 575 of app.py).  connect raises, and the
\* except branch returns the error, or it opens a connection that belongs
\* to no pool.  generate_daily_insights may raise in the analysis before it
\* connects, to the same effect.
StartDirect(t, f) ==
    /\ pc[t] = "idle"
    /\ nOps < MaxOps
    /\ nOps' = nOps + 1
    /\ \/ /\ Leave(t, [Result(t, f, None, "none") EXCEPT !.status = "error"])
          /\ UNCHANGED hvars
       \/ /\ nHandles < MaxHandles
          /\ nHandles' = nHandles + 1
          /\ h_stat' = Opened(h_stat, {nHandles + 1})
          /\ op' = [op EXCEPT ![t] = f]
          /\ conn' = [conn EXCEPT ![t] = nHandles + 1]
          /\ Goto(t, "dc_work")
          /\ UNCHANGED <<nBreaks, h_broken, h_trans, phase, pool, close,
                         exitKind>>
    /\ UNCHANGED <<configured, lvars, _connection_pool, nManagers, nShutdowns,
                   mvars, cvars, held>>

\* The queries, the insight generation and the commit.  When all succeed an
\* InsightProcessor function calls conn.close() and returns (lines 71-75,
\* 126-130, 167-174); when one raises, its except branch logs and returns
\* the error (lines 77-79, 132-134, 176-178) and nothing closes conn.
\* get_customers closes conn in its finally block on both paths (app.py,
\* lines 624-626).
direct_work(t) ==
    /\ pc[t] = "dc_work"
    /\ \E raised \in BOOLEAN :
         /\ h_stat' = IF ~raised \/ op[t] = "get_customers"
                      THEN Closed(h_stat, {conn[t]}) ELSE h_stat
         /\ Leave(t, [Result(t, op[t], conn[t], "none")
                        EXCEPT !.status = IF raised THEN "error"
                                                    ELSE "success"])
    /\ UNCHANGED <<gvars, mvars, cvars, nHandles, nBreaks, h_broken, h_trans,
                   held>>

NextDirect ==
    \/ Next
    \/ \E t \in Threads :
          \/ \E f \in DirectCalls : StartDirect(t, f)
          \/ direct_work(t)

SpecDirect == Init /\ [][NextDirect]_vars

\* The busy pool: the state after the callers made MaxConnections
\* get_connection calls, one after the other and in turn, on a configured
\* system.  The first call created the DatabaseConnectionPool and its
\* ThreadedConnectionPool with connections 1..MinConnections; every call
\* checked one connection out (the idle ones from the end of the list, then
\* new ones) and probed it, which leaves a transaction open on it.
HolderOf(h) == ((h - 1) % NumThreads) + 1

InitBusy ==
    /\ configured = TRUE
    /\ min_connections = [m \in Managers |-> IF m = 1 THEN DefaultLimits[1]
                                                       ELSE 0]
    /\ max_connections = [m \in Managers |-> IF m = 1 THEN DefaultLimits[2]
                                                       ELSE 0]
    /\ _connection_pool = 1
    /\ nManagers = 1
    /\ nShutdowns = 0
    /\ nBreaks = 0
    /\ nOps = 0
    /\ _initialized = [m \in Managers |-> m = 1]
    /\ _pool = [m \in Managers |-> IF m = 1 THEN 1 ELSE None]
    /\ _lock = [m \in Managers |-> None]
    /\ nCores = 1
    /\ minconn = [c \in Cores |-> IF c = 1 THEN PoolLimits(1)[1] ELSE 0]
    /\ maxconn = [c \in Cores |-> IF c = 1 THEN PoolLimits(1)[2] ELSE 0]
    /\ tcp_closed = [c \in Cores |-> FALSE]
    /\ tcp_pool = [c \in Cores |-> <<>>]
    /\ tcp_used = [c \in Cores |-> IF c = 1 THEN 1..PoolLimits(1)[2] ELSE {}]
    /\ shut = {}
    /\ nHandles = PoolLimits(1)[2]
    /\ h_stat = [h \in Handles |-> IF h <= PoolLimits(1)[2] THEN "open"
                                                         ELSE "none"]
    /\ h_broken = [h \in Handles |-> FALSE]
    /\ h_trans = [h \in Handles |-> h <= PoolLimits(1)[2]]
    /\ pc = [t \in Threads |-> "idle"]
    /\ op = [t \in Threads |-> "none"]
    /\ phase = [t \in Threads |-> "none"]
    /\ pool = [t \in Threads |-> None]
    /\ conn = [t \in Threads |-> None]
    /\ close = [t \in Threads |-> FALSE]
    /\ exitKind = [t \in Threads |-> "none"]
    /\ held = [t \in Threads |->
                 {h \in 1..PoolLimits(1)[2] : HolderOf(h) = t}]
    /\ outcome = NoOutcome

SpecBusy == InitBusy /\ [][Next]_vars

\* ================================================================ claims
OpenCores == {c \in 1..nCores : ~tcp_closed[c]}
InUse(c) == Cardinality(tcp_used[c])
Idle(c) == Len(tcp_pool[c])
Got == outcome.call = "get_connection" /\ outcome.conn # None
ContextExit == outcome.call = "get_connection_context" /\ outcome.conn # None

\* C1: the connections of a pool, idle plus checked out, and so the ones
\* checked out at the same time, never number more than max_connections,
\* whatever the interleaving and also through the discard of a connection
\* that failed its probe and the second checkout.
C1_LiveWithinMax ==
    \A c \in Cores :
        /\ Idle(c) + InUse(c) <= MaxConnections
        /\ InUse(c) <= MaxConnections
        /\ Cardinality({h \in Handles : h_stat[h] = "open"
                          /\ h \in Range(tcp_pool[c]) \cup tcp_used[c]})
             <= MaxConnections

\* C1 witness: a get_connection whose first connection failed the probe has
\* returned the second one, and max_connections are checked out.
C1_Witness ==
    /\ Got /\ ~outcome.probed
    /\ \E c \in Cores : InUse(c) = MaxConnections

\* C2 as stated: when get_connection_context exits, return_connection has
\* been called exactly once for the connection and the connection is no
\* longer counted as checked out.
C2_ReleasedOnce ==
    ContextExit =>
        /\ outcome.releases = 1
        /\ \A c \in Cores : outcome.conn \notin tcp_used[c]

\* C3: a connection is never held by two callers at once: the connections
\* the callers hold are pairwise distinct, and none of them is in an idle
\* list, from which a get_connection (first or second checkout) could
\* return it again.
C3_NeverShared ==
    /\ \A t, u \in Threads : t # u => held[t] \cap held[u] = {}
    /\ \A t \in Threads : \A c \in Cores :
           held[t] \cap Range(tcp_pool[c]) = {}
    /\ Got => \A u \in Threads \ {outcome.thread} : outcome.conn \notin held[u]

\* C3 witness: two callers hold connections of the same pool, the second
\* obtained by the checkout that follows a failed probe.
C3_Witness ==
    /\ Got /\ ~outcome.probed
    /\ \E t, u \in Threads : \E c \in Cores :
           /\ t # u
           /\ held[t] \cap tcp_used[c] # {}
           /\ held[u] \cap tcp_used[c] # {}

\* C4 as stated: no broken connection ever reaches a caller: the connection
\* that get_connection returns is healthy (it would pass SELECT 1) when it
\* is returned, also when the first one checked out failed the probe.
C4_ReturnedHealthy == Got => Healthy(outcome.conn)

\* C5 as stated: when the body of get_connection_context raises, the caller
\* of the with-statement observes that exception.
C5_OriginalPropagates ==
    ContextExit =>
        /\ outcome.exitKind = "exc" => outcome.err = "Exception"
        /\ outcome.exitKind = "base" => outcome.err = "BaseException"

\* C6 as stated: whenever the body exits by raising, whatever the kind of
\* exception, the release is made with close=True.
C6_AnyRaiseCloses ==
    \A t \in Threads :
        (op[t] = "ctx" /\ exitKind[t] \in {"exc", "base"}
           /\ pc[t] \in {"gp_lock", "gp_return", "rc_check", "rc_put"})
            => close[t]

\* C6 amended: when the body exits by an exception that `except Exception`
\* catches, return_connection is called with close=True, and only if that
\* call raises is it called again, from the finally block and without
\* close; when the body exits by another BaseException (KeyboardInterrupt,
\* SystemExit, GeneratorExit) the one release is the finally block's,
\* without close.  In every case a connection in the idle list has no
\* transaction pending: return_connection and putconn roll it back first.
C6_ExceptionCloses ==
    /\ \A t \in Threads :
         /\ (op[t] = "ctx" /\ phase[t] = "rel_exc") =>
                exitKind[t] = "exc" /\ close[t]
         /\ (op[t] = "ctx" /\ phase[t] = "rel_fin") =>
                exitKind[t] \in {"ok", "base"} /\ ~close[t]
         /\ (op[t] = "ctx" /\ phase[t] = "rel_again") =>
                exitKind[t] = "exc" /\ ~close[t]
    /\ (ContextExit /\ outcome.exitKind = "exc" /\ outcome.releases = 1) =>
           outcome.close
    /\ \A c \in Cores : \A h \in Range(tcp_pool[c]) : ~h_trans[h]

\* C6 witness: a body that raised an Exception with a transaction pending
\* has been released with close=True, and the connection is closed.
C6_Witness ==
    /\ ContextExit /\ outcome.exitKind = "exc"
    /\ outcome.close /\ outcome.connection_returned
    /\ h_stat[outcome.conn] = "closed"
    /\ \A c \in Cores : outcome.conn \notin tcp_used[c]

\* C7: after close_all_connections has run on an initialized pool, every
\* connection of that pool, idle or checked out, is closed.
C7_ShutdownClosesAll ==
    \A c \in shut :
        /\ tcp_closed[c]
        /\ \A h \in Range(tcp_pool[c]) \cup tcp_used[c] : h_stat[h] = "closed"

\* C7 witness: close_all_connections has returned after shutting down a
\* pool with 2 connections checked out and 1 idle.
C7_Witness ==
    /\ outcome.call = "close_all_connections" /\ outcome.err = "none"
    /\ \E c \in shut : InUse(c) = 2 /\ Idle(c) = 1

AtExhausted(t) ==
    /\ pc[t] \in {"gc_getconn", "gc_retry"}
    /\ _pool[pool[t]] # None
    /\ ~tcp_closed[_pool[pool[t]]]
    /\ tcp_pool[_pool[pool[t]]] = <<>>
    /\ InUse(_pool[pool[t]]) = MaxConnections

\* C9: the checkout step of a get_connection on an exhausted pool fails
\* with the pool-exhausted error and changes nothing: same idle list, same
\* checked-out set, same connections, nothing held by the caller for it.
C9_ExhaustedFailsClean ==
    [][\A t \in Threads :
          (AtExhausted(t) /\ pc'[t] # pc[t]) =>
              /\ outcome'.thread = t
              /\ outcome'.err = "PoolExhausted"
              /\ outcome'.conn = None
              /\ UNCHANGED <<cvars, hvars, held>>]_vars

\* C9 witness: a get_connection has failed with the pool-exhausted error
\* while max_connections were checked out.
C9_Witness ==
    /\ outcome.call = "get_connection" /\ outcome.err = "PoolExhausted"
    /\ \E c \in OpenCores : InUse(c) = MaxConnections /\ Idle(c) = 0

\* C10 as stated: a get_connection that finds the pool exhausted does not
\* fail at once: the step it takes there does not end the call with the
\* pool-exhausted error (the caller waits for a connection).
C10_BlocksWhenExhausted ==
    [][\A t \in Threads :
          AtExhausted(t) =>
              ~(outcome'.thread = t /\ outcome'.err = "PoolExhausted")]_vars

\* The connections that callers have checked out: the ones they hold and
\* the ones they are passing to return_connection.
Releasing ==
    {conn[t] : t \in {u \in Threads :
                        pc[u] \in {"gp_lock", "gp_return", "rc_check",
                                  "rc_put"}}}
      \ {None}
CheckedOut == UNION {held[t] : t \in Threads} \cup Releasing

\* C11: with a healthy backend (no server link lost, no shutdown), the
\* checkout of a get_connection succeeds whenever fewer than max_connections
\* connections are checked out, also when none is idle (a new connection is
\* opened, unless psycopg2.connect itself fails); when max_connections are
\* checked out it fails with the pool-exhausted error; so a call retried
\* after one of them was returned succeeds.
C11_SucceedsBelowCeiling ==
    [][\A t \in Threads :
          (pc[t] = "gc_getconn" /\ pc'[t] # pc[t]
             /\ nBreaks' = 0 /\ nShutdowns = 0) =>
              IF Cardinality(CheckedOut) < MaxConnections
              THEN \/ /\ outcome'.thread = t
                      /\ outcome'.call = "get_connection"
                      /\ outcome'.err = "none"
                      /\ outcome'.conn \in held'[t]
                   \/ /\ Idle(_pool[pool[t]]) = 0
                      /\ outcome'.err = "OperationalError"
              ELSE outcome'.err = "PoolExhausted"]_vars

\* C11 witness: with max_connections checked out, one was returned and kept
\* idle, and the next get_connection returned it: max_connections are
\* checked out again, with no link lost and no shutdown.
C11_Witness ==
    /\ Got /\ outcome.probed
    /\ outcome.conn <= MaxConnections
    /\ nOps >= 2 /\ nBreaks = 0 /\ nShutdowns = 0
    /\ Cardinality(CheckedOut) = MaxConnections

\* C12: while no shutdown intervenes, lazy initialization happens once: the
\* callers' first get_connection calls, however they interleave, create one
\* DatabaseConnectionPool and construct one ThreadedConnectionPool, and every
\* caller uses that manager and that pool.
C12_InitializedOnce ==
    nShutdowns = 0 =>
        /\ nManagers <= 1 /\ nCores <= 1
        /\ \A t \in Threads : pool[t] \in {None, _connection_pool}
        /\ \A m \in Managers : _pool[m] # None => m = 1 /\ _pool[m] = 1
        /\ Got => /\ nManagers = 1 /\ nCores = 1
                  /\ outcome.conn \in tcp_used[1]
        /\ \A t \in Threads : held[t] \subseteq tcp_used[1]

\* C12 witness: two callers made their first get_connection together; both
\* found the pool not initialized, one constructed the underlying pool, and
\* the other is about to take the lock and look at _initialized again.
C12_Witness ==
    /\ nShutdowns = 0
    /\ \E t, u \in Threads :
         /\ t # u
         /\ pc[t] = "ip_lock" /\ _initialized[pool[t]]
         /\ pc[u] = "gc_getconn" /\ pool[u] = pool[t]

\* C13: a get_connection call makes at most two checkouts and always ends.
\* When the probe of the first connection failed and the pool is still open,
\* the connection is closed and taken out of the checked-out set, and
\* exactly one more checkout follows (when a shutdown got in between, the
\* connection was closed by it and the call raises); the second checkout
\* ends the call, with a connection or an exception.  Every call that was
\* started returns or raises.
C13_AtMostTwoCheckouts ==
    /\ [][\A t \in Threads :
            /\ (pc[t] = "gc_getconn" /\ pc'[t] # pc[t]) =>
                   pc'[t] \in {"idle", "cx_body", "gc_discard"}
            /\ (pc[t] = "gc_discard" /\ pc'[t] # pc[t]) =>
                   /\ h_stat'[conn[t]] = "closed"
                   /\ IF _pool[pool[t]] # None /\ ~tcp_closed[_pool[pool[t]]]
                      THEN /\ pc'[t] = "gc_retry"
                           /\ conn[t] \notin tcp_used'[_pool[pool[t]]]
                           /\ conn[t] \notin Range(tcp_pool'[_pool[pool[t]]])
                      ELSE /\ pc'[t] = "idle"
                           /\ outcome'.thread = t /\ outcome'.err # "none"
            /\ (pc[t] = "gc_retry" /\ pc'[t] # pc[t]) =>
                   /\ pc'[t] \in {"idle", "cx_body"}
                   /\ outcome'.thread = t
                   /\ outcome'.err = "none" <=> outcome'.conn # None
            /\ (pc'[t] = "gc_discard" /\ pc[t] # pc'[t]) =>
                   pc[t] = "gc_getconn"
            /\ (pc'[t] = "gc_retry" /\ pc[t] # pc'[t]) =>
                   pc[t] = "gc_discard"]_vars
    /\ \A t \in Threads :
           (pc[t] \in {"gp_lock", "gp_return", "gc_check", "ip_lock",
                       "gc_getconn", "gc_discard", "gc_retry"} /\ InGet(t))
             ~> pc[t] \in {"idle", "cx_body"}

\* C13 witness: the first connection failed the probe and was discarded,
\* and the second checkout has just returned a connection to the caller,
\* which was newly opened for it.
C13_Witness ==
    /\ Got /\ ~outcome.probed
    /\ \E h \in Handles : h_stat[h] = "closed"
    /\ outcome.conn > MinConnections

\* C14: a connection whose rollback fails during the release is closed and
\* is not in an idle list afterwards; a closed connection is never opened
\* again, no idle list of an open pool holds one, and get_connection never
\* returns one.
C14_FailedRollbackDiscarded ==
    /\ [](\A c \in OpenCores : \A h \in Range(tcp_pool[c]) :
              h_stat[h] = "open")
    /\ [](Got => h_stat[outcome.conn] = "open")
    /\ [][\A t \in Threads :
            /\ (pc[t] = "rc_put" /\ pc'[t] # pc[t] /\ ~close[t]
                  /\ h_stat[conn[t]] = "open" /\ h_trans[conn[t]]
                  /\ h_broken[conn[t]]) =>
                   /\ h_stat'[conn[t]] = "closed"
                   /\ \A c \in Cores : conn[t] \notin Range(tcp_pool'[c])
            /\ \A h \in Handles :
                   h_stat[h] = "closed" => h_stat'[h] = "closed"]_vars

\* C14 witness: a release without close has just ended on a connection whose
\* rollback failed: the connection is closed, still keyed as checked out in
\* its open pool, and in no idle list.
C14_Witness ==
    /\ outcome.call \in {"return_connection", "get_connection_context"}
    /\ outcome.conn # None /\ ~outcome.close /\ outcome.err = "none"
    /\ h_stat[outcome.conn] = "closed"
    /\ \E c \in OpenCores : outcome.conn \in tcp_used[c]

\* A caller is at the putconn of a release (line 179) on an open pool in
\* which its connection is keyed as checked out.
AtRelease(t) ==
    /\ pc[t] = "rc_put"
    /\ _pool[pool[t]] # None
    /\ ~tcp_closed[_pool[pool[t]]]
    /\ conn[t] \in tcp_used[_pool[pool[t]]]

\* C15 as stated: a release in error mode (close=True) rolls the pending
\* transaction back and, the rollback succeeding on a healthy connection,
\* puts the connection back into the idle list for reuse.
C15_ErrorModeReuses ==
    [][\A t \in Threads :
          (AtRelease(t) /\ pc'[t] # pc[t] /\ close[t] /\ Healthy(conn[t])) =>
              /\ h_stat'[conn[t]] = "open"
              /\ conn[t] \in Range(tcp_pool'[_pool[pool[t]]])]_vars

\* C15 amended: a release with close=True attempts no rollback and never
\* puts the connection back: whether or not a transaction is pending and
\* whatever the health of the connection, the connection is closed, is in no
\* idle list, and is no longer keyed as checked out.  A rollback is
\* attempted only by a release with close=False.
C15_ErrorModeDiscards ==
    [][\A t \in Threads :
          (pc[t] = "rc_put" /\ pc'[t] # pc[t] /\ close[t]) =>
              /\ ~RollbackAttempted(conn[t], close[t])
              /\ h_stat'[conn[t]] = "closed"
              /\ \A c \in Cores : conn[t] \notin Range(tcp_pool'[c])
              /\ AtRelease(t) => conn[t] \notin tcp_used'[_pool[pool[t]]]
              /\ tcp_pool' = tcp_pool]_vars

\* C15 witness: return_connection(conn, close=True) has just ended on a
\* pool with fewer than min_connections idle: the connection is closed and
\* released, and the idle list did not take it.
C15_Witness ==
    /\ outcome.call = "return_connection" /\ outcome.close
    /\ outcome.err = "none"
    /\ h_stat[outcome.conn] = "closed"
    /\ \E c \in OpenCores :
         /\ Idle(c) < MinConnections
         /\ outcome.conn \notin tcp_used[c]
         /\ InUse(c) > 0

Live(c) == {h \in Range(tcp_pool[c]) \cup tcp_used[c] : h_stat[h] = "open"}

\* C17: an initialized pool never holds fewer than min_connections open
\* connections, idle plus checked out, after any checkouts, releases and
\* discards.
C17_NeverBelowFloor ==
    \A m \in Managers :
        (_initialized[m] /\ _pool[m] # None /\ ~tcp_closed[_pool[m]]) =>
            Cardinality(Live(_pool[m])) >= MinConnections

\* C18: return_connection never places a broken connection, one that is
\* closed or whose server link is lost, into the idle list, also not when
\* the connection broke while checked out and is released with close=False
\* after a with-body that ended normally.
C18_BrokenNeverIdle ==
    [][\A t \in Threads :
          (pc[t] = "rc_put" /\ pc'[t] # pc[t]) =>
              \A c \in Cores :
                  \A h \in Range(tcp_pool'[c]) \ Range(tcp_pool[c]) :
                      h_stat'[h] = "open" /\ ~h_broken'[h]]_vars

\* C19: with a required setting missing, a get_connection that reaches
\* _initialize_pool fails with the configuration error (ValueError); no
\* ThreadedConnectionPool is ever constructed, no connection to the
\* database is ever opened, and no caller is ever handed a connection.
C19_MissingSettingsFailFirst ==
    /\ [](~configured =>
            /\ nCores = 0 /\ nHandles = 0
            /\ \A h \in Handles : h_stat[h] = "none"
            /\ \A m \in Managers : ~_initialized[m] /\ _pool[m] = None
            /\ ~Got
            /\ (outcome.call \in {"get_connection", "get_connection_context"}
                  /\ nShutdowns = 0) => outcome.err = "ValueError")
    /\ [][\A t \in Threads :
            (~configured /\ pc[t] = "ip_lock" /\ pc'[t] # pc[t]) =>
                /\ outcome'.thread = t /\ outcome'.err = "ValueError"
                /\ pc'[t] = "idle"]_vars

\* C19 witness: with a setting missing, a get_connection has failed with
\* the configuration error.
C19_Witness ==
    /\ ~configured
    /\ outcome.call = "get_connection" /\ outcome.err = "ValueError"

\* C20: an _initialize_pool that fails, on the settings check or in the
\* constructor of the underlying pool, ends the get_connection call with
\* that exception at once, without a second attempt, and leaves the manager
\* as it was before: _initialized false, no pool object, the lock free, so
\* get_pool_status reports not_initialized; nothing was constructed.
C20_FailedInitLeavesUninitialized ==
    [][\A t \in Threads :
          (pc[t] = "ip_lock" /\ pc'[t] \notin {"ip_lock", "gc_getconn"}) =>
              \E m \in Managers :
              /\ m = pool[t]
              /\ pc'[t] = "idle"
              /\ outcome'.thread = t /\ outcome'.conn = None
              /\ outcome'.err \in {"ValueError", "OperationalError"}
              /\ outcome'.err = "ValueError" <=> ~configured
              /\ ~_initialized'[m] /\ _pool'[m] = None /\ _lock'[m] = None
              /\ get_pool_status(m)' = "not_initialized"
              /\ UNCHANGED <<_initialized, _pool, _lock, cvars, hvars>>]_vars

\* C20 witness: the constructor of the underlying pool has failed for a
\* get_connection, and the manager is uninitialized.
C20_Witness ==
    /\ configured
    /\ outcome.call = "get_connection" /\ outcome.err = "OperationalError"
    /\ outcome.thread \in Threads
    /\ _connection_pool # None
    /\ get_pool_status(_connection_pool) = "not_initialized"
    /\ _pool[_connection_pool] = None

\* C21: get_pool_status changes nothing (it takes no lock, creates no
\* DatabaseConnectionPool, initializes nothing, touches no connection) and
\* always returns a status: not_initialized before first use, and
\* initialized with the configured limits once the pool is initialized.
C21_StatusReadOnlyReturns ==
    [][\A t \in Threads :
          ((pc[t] = "idle" /\ outcome'.call = "get_pool_status"
              /\ outcome'.thread = t)
              \/ (pc[t] = "gs_call") # (pc'[t] = "gs_call")) =>
              /\ UNCHANGED <<configured, lvars, _connection_pool, nManagers,
                             nShutdowns, mvars, cvars, hvars, held>>
              /\ (pc'[t] = "idle" /\ pc[t] = "gs_call") =>
                     /\ outcome'.err = "none"
                     /\ outcome'.status \in {"not_initialized", "initialized"}
                     /\ outcome'.status = "initialized" =>
                            outcome'.limits = <<MinConnections,
                                                MaxConnections>>]_vars

\* The step with which the get_connection of thread t raises.
GetFails(t) ==
    /\ pc[t] \in {"gc_getconn", "gc_discard", "gc_retry"}
    /\ pc'[t] = "idle"
    /\ outcome'.thread = t /\ outcome'.err # "none"

\* C22: a get_connection that fails is not fatal to the pool.  The step that
\* raises delivers the error to its caller alone, leaves the manager, every
\* underlying pool and every connection as they were, and the connection the
\* call had checked out is not keyed as checked out in any open pool; no
\* other thread's call is disturbed.
C22_FailedGetNotFatal ==
    [][\A t \in Threads :
          GetFails(t) =>
              /\ outcome'.conn = None
              /\ outcome'.call \in {"get_connection", "get_connection_context"}
              /\ UNCHANGED <<_connection_pool, mvars, cvars, hvars, held>>
              /\ \A c \in Cores :
                     ~tcp_closed'[c] => conn[t] \notin tcp_used'[c]
              /\ \A u \in Threads \ {t} :
                     pc'[u] = pc[u] /\ conn'[u] = conn[u]]_vars

\* C22 witness: on the busy pool a get_connection has failed, and a later
\* get_connection has succeeded on the same pool: with max_connections
\* checked out at the start, a third call can hand out a connection that
\* brings the number back to max_connections only after one failed call and
\* one release.
C22_Witness ==
    /\ nOps = 3 /\ nShutdowns = 0
    /\ \A t \in Threads : pc[t] = "idle"
    /\ Got /\ outcome.err = "none"
    /\ _initialized[1] /\ _pool[1] = 1 /\ ~tcp_closed[1]
    /\ outcome.conn \in tcp_used[1]
    /\ Cardinality({h \in tcp_used[1] : h_stat[h] = "open"}) = MaxConnections

\* C23: every DatabaseConnectionPool that exists has
\* 0 < min_connections <= max_connections, the underlying pool is built
\* with these two values, and no step changes them once the object exists:
\* not a checkout, a release, a shutdown or a later initialization.
C23_LimitsOrderedAndFixed ==
    /\ [](\A m \in 1..nManagers :
              /\ 0 < min_connections[m]
              /\ min_connections[m] <= max_connections[m]
              /\ _pool[m] # None =>
                     /\ minconn[_pool[m]] = min_connections[m]
                     /\ maxconn[_pool[m]] = max_connections[m])
    /\ [][\A m \in 1..nManagers :
              /\ min_connections'[m] = min_connections[m]
              /\ max_connections'[m] = max_connections[m]]_vars

\* C23 witness: the pool was shut down, a second DatabaseConnectionPool was
\* created and initialized, and a connection was handed out by it.
C23_Witness ==
    /\ nManagers = 2 /\ _initialized[2] /\ _pool[2] # None
    /\ Got /\ outcome.conn \in tcp_used[_pool[2]]

\* The connections of underlying pool c, idle or keyed as checked out.
Members(c) == Range(tcp_pool[c]) \cup tcp_used[c]

\* C24: no connection belongs to two underlying pools; a connection checked
\* out from a pool that was shut down since is closed; and a
\* return_connection that reaches the putconn of a live pool with a
\* connection this pool did not hand out changes neither the idle list nor
\* the checked-out set of any pool and leaves the connection closed.
C24_NoCrossPoolReturn ==
    /\ [](\A c \in Cores :
              /\ \A d \in Cores \ {c} : Members(c) \cap Members(d) = {}
              /\ tcp_closed[c] =>
                     \A h \in tcp_used[c] : h_stat[h] = "closed")
    /\ [][\A t \in Threads :
              (pc[t] = "rc_put" /\ pc'[t] # pc[t] /\ _pool[pool[t]] # None
                 /\ ~tcp_closed[_pool[pool[t]]]
                 /\ conn[t] \notin tcp_used[_pool[pool[t]]]) =>
                  /\ tcp_pool' = tcp_pool /\ tcp_used' = tcp_used
                  /\ h_stat'[conn[t]] = "closed"
                  /\ \A c \in Cores : conn[t] \notin Range(tcp_pool'[c])]_vars

\* C24 witness: the busy pool was shut down, a second underlying pool was
\* initialized, and a connection of the first pool has been passed to
\* return_connection, which reached the second pool.
C24_Witness ==
    /\ outcome.call = "return_connection" /\ outcome.err = "none"
    /\ outcome.conn \in tcp_used[1] /\ tcp_closed[1]
    /\ nCores = 2 /\ ~tcp_closed[2]
    /\ _connection_pool # None /\ _initialized[_connection_pool]
    /\ _pool[_connection_pool] = 2
    /\ outcome.conn \notin Members(2)
    /\ h_stat[outcome.conn] = "closed"

\* C25: every return_connection on a connection that is checked out from the
\* initialized pool removes it from the pool's checked-out set, whether or
\* not the rollback inside return_connection raises.
C25_ReleaseFreesSlot ==
    [][\A t \in Threads :
          (AtRelease(t) /\ pc'[t] # pc[t]) =>
              conn[t] \notin tcp_used'[_pool[pool[t]]]]_vars

\* C26: get_connection_pool never returns None: the `pool` on which
\* get_connection or return_connection then calls a method is a
\* DatabaseConnectionPool, whatever close_all_connections does meanwhile.
C26_PoolNeverNone ==
    \A t \in Threads : pc[t] \in {"gc_check", "rc_check"} => pool[t] # None

\* C27: whenever _initialized is true, _pool is not None; so a
\* get_connection or return_connection that has passed its look at
\* _initialized finds an underlying pool when it comes to use self._pool.
C27_InitializedHasPool ==
    /\ \A m \in Managers : _initialized[m] => _pool[m] # None
    /\ \A t \in Threads :
           pc[t] \in {"gc_getconn", "gc_discard", "gc_retry", "rc_put"} =>
               _pool[pool[t]] # None

\* The step with which the get_connection made by the get_connection_context
\* of thread t ends without a connection.
AcquireEnds(t) ==
    /\ op[t] = "ctx" /\ phase[t] = "acquire"
    /\ pc[t] # "idle" /\ pc'[t] = "idle"

\* C28 as stated: when get_connection raises inside get_connection_context
\* the idle and checked-out sets are as they were before the call: a
\* connection that the call took from the idle list is open and back in it.
C28_FailedAcquireChangesNothing ==
    [][\A t \in Threads :
          (AcquireEnds(t) /\ conn[t] # None) =>
              /\ h_stat'[conn[t]] = "open"
              /\ \E c \in Cores : conn[t] \in Range(tcp_pool'[c])]_vars

\* C28 amended: when get_connection raises inside get_connection_context,
\* the with-body is not entered, return_connection is not called, the
\* caller observes the error of the acquisition and holds what it held
\* before; the checked-out set of every open pool is as before the call.
\* The idle list is as before the call except for a connection that the
\* call took from it and that failed the probe: that one is closed and in
\* no idle list.
C28_FailedAcquireReleasesNothing ==
    [][\A t \in Threads :
          AcquireEnds(t) =>
              /\ outcome'.thread = t
              /\ outcome'.call = "get_connection_context"
              /\ outcome'.conn = None
              /\ outcome'.err \in {"ValueError", "OperationalError",
                                   "PoolError", "PoolClosed",
                                   "PoolExhausted", "AttributeError"}
              /\ outcome'.releases = 0 /\ ~outcome'.connection_returned
              /\ held' = held
              /\ tcp_pool' = tcp_pool /\ tcp_used' = tcp_used
              /\ (pc[t] \notin {"gc_discard", "gc_retry"}) => conn[t] = None
              /\ conn[t] # None =>
                     /\ \A c \in Cores : conn[t] \notin Range(tcp_pool'[c])
                     /\ \A c \in Cores :
                            ~tcp_closed'[c] => conn[t] \notin tcp_used'[c]
                     /\ pc[t] = "gc_retry" => h_stat'[conn[t]] = "closed"]_vars

\* C28 witness: a get_connection_context has ended because its
\* get_connection raised (no connection could be opened, or the pool was
\* exhausted), without a release, on a pool one of whose connections has
\* been closed and removed.
C28_Witness ==
    /\ outcome.call = "get_connection_context" /\ outcome.conn = None
    /\ outcome.err \in {"OperationalError", "PoolExhausted"}
    /\ outcome.releases = 0
    /\ nShutdowns = 0
    /\ \E h \in Handles :
           /\ h_stat[h] = "closed"
           /\ \A c \in Cores : h \notin Members(c)

\* The step at line 165 of a return_connection of thread t that finds the
\* pool not initialized, or was given no connection.
AtIgnoredReturn(t) ==
    /\ pc[t] = "rc_check" /\ pc'[t] # pc[t]
    /\ pool[t] # None
    /\ ~_initialized[pool[t]] \/ conn[t] = None

C30_DirectConnectionsClosed ==
    (outcome.call \in DirectCalls /\ outcome.conn # None) =>
        h_stat[outcome.conn] = "closed"

====
